---- MODULE Spec2Model ----
(***************************************************************************)
(* Behavioural model of the PCA9535 16-bit I2C I/O expander custom chip    *)
(* (src/src/pca9535.chip.c).  The chip is a single-threaded reactive       *)
(* state machine: every action below is one callback of the chip, run to   *)
(* completion, or one change of an external line level.                    *)
(***************************************************************************)
EXTENDS Integers, Sequences, FiniteSets, TLC

\* ------------------------------------------------------------------------
\* Program constants
\* ------------------------------------------------------------------------
I2C_BASE_ADDRESS == 32

NUM_GPIO == 16

NUM_ADDR_BITS == 3

\* ------------------------------------------------------------------------
\* Bounds of the model
\* ------------------------------------------------------------------------
\* maximal number of bytes transferred in one bus transaction
MaxXfer == 3

\* number of distinct bus addresses the master may connect to
NumBusAddrs == 2

\* the data bytes the bus master may write
Bytes == {255, 0}

\* the I/O lines whose external level may change
ToggleLines == {9}

BusAddrChoices == <<32, 39, 80, 33>>

BusAddrs == {BusAddrChoices[k] : k \in 1..NumBusAddrs}

\* chip_state_t comes from malloc(): a field that chip_init never assigns
\* holds whatever the allocator left there.
UninitVals == {0, 65535}

NoRet == "void"

\* ------------------------------------------------------------------------
\* Bit arithmetic on C unsigned integers
\* ------------------------------------------------------------------------
Pow2(n) == 2 ^ n

\* (v >> i) & 1
Bit(v, i) == (v \div Pow2(i)) % 2

RECURSIVE OrBits(_, _, _, _)
OrBits(a, b, i, n) ==
  IF i = n THEN 0
  ELSE (IF Bit(a, i) = 1 \/ Bit(b, i) = 1 THEN Pow2(i) ELSE 0)
       + OrBits(a, b, i + 1, n)

\* a | b over the low n bits
BitOr(a, b, n) == OrBits(a, b, 0, n)

\* ------------------------------------------------------------------------
\* State
\* ------------------------------------------------------------------------
VARIABLES
  address,        \* chip->address
  addrLevel,      \* logic level of the address-select lines A0..A2
  nINT,           \* pin mode of the interrupt line: "INPUT" or "OUTPUT_LOW"
  ioMode,         \* pin mode of each of the 16 I/O lines
  ioWatch,        \* number of edge watches registered on each I/O line
  ioLevel,        \* level the outside world puts on each externally driven I/O line
  inputMask,      \* chip->inputMask
  inputValue,     \* chip->inputValue
  lastReadValue,  \* chip->lastReadValue
  i2c_portcount,  \* chip->i2c_portcount
  bus,            \* direction of the open bus transaction, or "idle"
  count,          \* bytes transferred so far in the open transaction
  wr,             \* the (at most two) most recent bytes written in it
  ret,            \* value returned by the last callback
  last            \* the last event that happened

vars == <<address, addrLevel, nINT, ioMode, ioWatch, ioLevel, inputMask,
          inputValue, lastReadValue, i2c_portcount, bus, count, wr, ret, last>>

Lines == 0..(NUM_GPIO - 1)

AddrLines == 0..(NUM_ADDR_BITS - 1)

\* ------------------------------------------------------------------------
\* Host pin interface, as the chip uses it
\* ------------------------------------------------------------------------
\* pin_read() of an I/O line: a line driven low by the chip reads low,
\* an input line reads the external level.
\* A line the outside world never drives is held high by its pull-up.
ExtLevel(level, i) == IF i \in DOMAIN level THEN level[i] ELSE 1

pin_read(mode, level, i) ==
  IF mode[i] = "OUTPUT_LOW" THEN 0 ELSE ExtLevel(level, i)

\* faulty variant: the stale watch is not stopped before a new registration
pin_watch_keep(watch, i) == watch

pin_watch_stop(watch, i) == [watch EXCEPT ![i] = 0]

pin_watch(watch, i) == [watch EXCEPT ![i] = @ + 1]

pin_mode(mode, i, m) == [mode EXCEPT ![i] = m]

\* ------------------------------------------------------------------------
\* Pure helpers of the chip
\* ------------------------------------------------------------------------
interruptFlagOff == "INPUT"

interruptFlagOn == "OUTPUT_LOW"

incrementPortCount(pc) == IF pc # 0 THEN 0 ELSE 1

\* faulty variant: lsbits |= 1 instead of lsbits |= (1 << i)
AddrBitsNoShift(levels, i) ==
  IF \E k \in i..(NUM_ADDR_BITS - 1) : levels[k] = 1 THEN 1 ELSE 0

RECURSIVE AddrBits(_, _)
\* the loop of read_address: lsbits |= (1 << i) for every high line
AddrBits(levels, i) ==
  IF i = NUM_ADDR_BITS THEN 0
  ELSE (IF levels[i] = 1 THEN Pow2(i) ELSE 0) + AddrBits(levels, i + 1)

read_address(levels) == BitOr(I2C_BASE_ADDRESS, AddrBits(levels, 0), 8)

RECURSIVE ScanInputs(_, _, _, _)
\* the loop of readInputsValue
ScanInputs(mask, mode, level, i) ==
  IF i = NUM_GPIO THEN 0
  ELSE (IF Bit(mask, i) = 1 /\ pin_read(mode, level, i) = 1
        THEN Pow2(i) ELSE 0)
       + ScanInputs(mask, mode, level, i + 1)

\* faulty variant: inputsValue starts from 0xffff instead of 0
readInputsValueFromOnes(mask, mode, level) ==
  BitOr(65535, ScanInputs(mask, mode, level, 0), NUM_GPIO)

readInputsValue(mask, mode, level) == ScanInputs(mask, mode, level, 0)

\* faulty variant: the port shift is forgotten, every read returns port 0
ReadByteNoShift(v, pc) == v % 256

\* uint8_t retVal = (chip->inputValue >> (chip->i2c_portcount*8)) & 0xff
ReadByte(v, pc) == (v \div Pow2(pc * 8)) % 256

ByteOf(v, k) == (v \div Pow2(8 * k)) % 256

\* ------------------------------------------------------------------------
\* on_i2c_write: reconfiguration of one port (8 lines)
\* ------------------------------------------------------------------------
\* faulty variant: the mask is not reset on the first byte of a pair
MaskNeverCleared(pc, mask) == mask

\* if (! chip->i2c_portcount) chip->inputMask = 0;
MaskAtByteStart(pc, mask) == IF pc = 0 THEN 0 ELSE mask

\* faulty variant: the port offset is forgotten, every byte configures port 0
BitIdxPort0(i, pc) == i % 256

\* uint8_t bitIdx = i + (chip->i2c_portcount * 8)
BitIdx(i, pc) == (i + pc * 8) % 256

RECURSIVE WriteMaskBits(_, _, _)
\* the bits that the for loop ORs into inputMask: 1 << bitIdx for every set
\* bit i of data
WriteMaskBits(i, data, pc) ==
  IF i = 8 THEN 0
  ELSE (IF Bit(data, i) = 1 THEN Pow2(BitIdx(i, pc)) ELSE 0)
       + WriteMaskBits(i + 1, data, pc)

\* pin mode that the loop body gives the line of a data bit b
WriteLineMode(b) == IF b = 1 THEN "INPUT_PULLUP" ELSE "OUTPUT_LOW"

RECURSIVE WriteModes(_, _, _, _)
\* the pin_mode calls of the for loop, iterations i..7
WriteModes(i, data, pc, mode) ==
  IF i = 8 THEN mode
  ELSE WriteModes(i + 1, data, pc,
                  pin_mode(mode, BitIdx(i, pc), WriteLineMode(Bit(data, i))))

\* faulty variant: the watch is stopped but not registered again for a 1 bit
WriteLineWatchStopOnly(watch, j, b) == pin_watch_stop(watch, j)

\* faulty variant: a 1 bit registers a watch without stopping the old one
WriteLineWatchNoStop(watch, j, b) ==
  IF b = 1 THEN pin_watch(watch, j) ELSE pin_watch_stop(watch, j)

\* the watch calls of one iteration: the watch of the line is stopped, and
\* registered again for a 1 bit
WriteLineWatch(watch, j, b) ==
  IF b = 1 THEN pin_watch(pin_watch_stop(watch, j), j)
  ELSE pin_watch_stop(watch, j)

RECURSIVE WriteWatches(_, _, _, _)
\* the pin_watch_stop / pin_watch calls of the for loop, iterations i..7
WriteWatches(i, data, pc, watch) ==
  IF i = 8 THEN watch
  ELSE WriteWatches(i + 1, data, pc,
                    WriteLineWatch(watch, BitIdx(i, pc), Bit(data, i)))

\* the configuration [mask, mode, watch] after on_i2c_write(data) with port
\* count pc
WritePost(data, pc, st) ==
  [mask  |-> BitOr(MaskAtByteStart(pc, st.mask), WriteMaskBits(0, data, pc), 16),
   mode  |-> WriteModes(0, data, pc, st.mode),
   watch |-> WriteWatches(0, data, pc, st.watch)]

\* the pin configuration of the chip: mask, pin modes, watch registrations
CfgSt == [mask |-> inputMask, mode |-> ioMode, watch |-> ioWatch]

\* ------------------------------------------------------------------------
\* on_i2c_connect
\* ------------------------------------------------------------------------
\* the fields of chip_state_t that the bus callbacks read or assign
ChipSt == [addr |-> address, pc |-> i2c_portcount, mask |-> inputMask,
           iv |-> inputValue, lrv |-> lastReadValue, nint |-> nINT]

\* faulty variant: the early return on an address mismatch is active and NACKs
ConnectPostFiltered(addr, read, st) ==
  IF addr # st.addr
  THEN [addr |-> st.addr, pc |-> st.pc, mask |-> st.mask, iv |-> st.iv,
        lrv |-> st.lrv, nint |-> st.nint, ack |-> FALSE]
  ELSE [addr |-> st.addr, pc |-> 0, mask |-> st.mask, iv |-> st.iv,
        lrv |-> IF read THEN st.iv ELSE st.lrv,
        nint |-> IF read THEN interruptFlagOff ELSE st.nint,
        ack |-> TRUE]

\* faulty variant: the snapshot and release are done for both directions
ConnectPostAnyDir(addr, read, st) ==
  [addr |-> st.addr, pc |-> 0, mask |-> st.mask, iv |-> st.iv,
   lrv |-> st.iv, nint |-> interruptFlagOff, ack |-> TRUE]

\* faulty variant: the port count is not reset on a new connection
ConnectPostNoReset(addr, read, st) ==
  [addr |-> st.addr, pc |-> st.pc, mask |-> st.mask, iv |-> st.iv,
   lrv |-> IF read THEN st.iv ELSE st.lrv,
   nint |-> IF read THEN interruptFlagOff ELSE st.nint,
   ack |-> TRUE]

\* if (address != chip->address): the mismatch that on_i2c_connect logs
ConnectMismatch(addr, st) == addr # st.addr

\* the chip state after on_i2c_connect(addr, read), with its return value
ConnectPost(addr, read, st) ==
  [addr |-> st.addr,
   pc   |-> 0,
   mask |-> st.mask,
   iv   |-> st.iv,
   lrv  |-> IF read THEN st.iv ELSE st.lrv,
   nint |-> IF read THEN interruptFlagOff ELSE st.nint,
   ack  |-> TRUE]

\* ------------------------------------------------------------------------
\* chip_input_io_change
\* ------------------------------------------------------------------------
\* faulty variant: every masked line is taken as high, pin_read is not asked
IoChangeValueMaskOnly(mask, mode, level) == mask

\* chip->inputValue = readInputsValue(chip)
IoChangeValue(mask, mode, level) == readInputsValue(mask, mode, level)

\* faulty variant: the change callback also takes the snapshot
IoChangeLastReadSnap(iv, lrv) == iv

\* lastReadValue after chip_input_io_change: the callback does not assign it
IoChangeLastRead(iv, lrv) == lrv

\* faulty variant: the two branches are swapped
IoChangeFlagInverted(iv, lrv) ==
  IF iv # lrv THEN interruptFlagOff ELSE interruptFlagOn

\* if (chip->inputValue != chip->lastReadValue) On else Off
IoChangeFlag(iv, lrv) == IF iv # lrv THEN interruptFlagOn ELSE interruptFlagOff

\* ------------------------------------------------------------------------
\* Initial state: the state chip_init() leaves
\* ------------------------------------------------------------------------
Init ==
  /\ addrLevel \in [AddrLines -> {0, 1}]
  /\ address = read_address(addrLevel)
  /\ nINT = interruptFlagOff
  /\ ioMode = [i \in Lines |-> "INPUT_PULLUP"]
  /\ ioWatch = [i \in Lines |-> 1]
  /\ ioLevel \in [ToggleLines -> {0, 1}]
  /\ inputMask = 65535
  /\ inputValue = 65535
  /\ lastReadValue \in UninitVals
  /\ i2c_portcount = 0
  /\ bus = "idle"
  /\ count = 0
  /\ wr = <<>>
  /\ ret = NoRet
  /\ last = "chip_init"

\* ------------------------------------------------------------------------
\* Actions: the callbacks
\* ------------------------------------------------------------------------
on_i2c_connect(addr, read) ==
  LET post == ConnectPost(addr, read, ChipSt)
  IN /\ address' = post.addr
     /\ i2c_portcount' = post.pc
     /\ inputMask' = post.mask
     /\ inputValue' = post.iv
     /\ lastReadValue' = post.lrv
     /\ nINT' = post.nint
     /\ ret' = post.ack
     /\ bus' = IF read THEN "read" ELSE "write"
     /\ count' = 0
     /\ wr' = <<>>
     /\ last' = "on_i2c_connect"
     /\ UNCHANGED <<addrLevel, ioMode, ioWatch, ioLevel>>

on_i2c_read ==
  /\ bus = "read"
  /\ count < MaxXfer
  /\ ret' = ReadByte(inputValue, i2c_portcount)
  /\ i2c_portcount' = incrementPortCount(i2c_portcount)
  /\ count' = count + 1
  /\ last' = "on_i2c_read"
  /\ UNCHANGED <<address, addrLevel, nINT, ioMode, ioWatch, ioLevel,
                 inputMask, inputValue, lastReadValue, bus, wr>>

on_i2c_write(data) ==
  /\ bus = "write"
  /\ count < MaxXfer
  /\ LET post == WritePost(data, i2c_portcount, CfgSt)
     IN /\ inputMask' = post.mask
        /\ ioMode' = post.mode
        /\ ioWatch' = post.watch
  /\ i2c_portcount' = incrementPortCount(i2c_portcount)
  /\ ret' = TRUE
  /\ count' = count + 1
  /\ wr' = IF Len(wr) < 2 THEN Append(wr, data) ELSE <<wr[2], data>>
  /\ last' = "on_i2c_write"
  /\ UNCHANGED <<address, addrLevel, nINT, ioLevel, inputValue,
                 lastReadValue, bus>>

on_i2c_disconnect ==
  /\ bus # "idle"
  /\ bus' = "idle"
  /\ count' = 0
  /\ wr' = <<>>
  /\ ret' = NoRet
  /\ last' = "on_i2c_disconnect"
  /\ UNCHANGED <<address, addrLevel, nINT, ioMode, ioWatch, ioLevel,
                 inputMask, inputValue, lastReadValue, i2c_portcount>>

\* faulty variant: an address change also restarts the byte framing
chip_addr_change_reset(i) ==
  /\ addrLevel' = [addrLevel EXCEPT ![i] = 1 - @]
  /\ address' = read_address(addrLevel')
  /\ i2c_portcount' = 0
  /\ ret' = NoRet
  /\ last' = "chip_addr_change"
  /\ UNCHANGED <<nINT, ioMode, ioWatch, ioLevel, inputMask, inputValue,
                 lastReadValue, bus, count, wr>>

\* an edge on address-select line i; the address lines are always watched
chip_addr_change(i) ==
  /\ addrLevel' = [addrLevel EXCEPT ![i] = 1 - @]
  /\ address' = read_address(addrLevel')
  /\ ret' = NoRet
  /\ last' = "chip_addr_change"
  /\ UNCHANGED <<nINT, ioMode, ioWatch, ioLevel, inputMask, inputValue,
                 lastReadValue, i2c_portcount, bus, count, wr>>

\* an edge on I/O line i that is an input with a watch registered
chip_input_io_change(i) ==
  /\ ioWatch[i] > 0
  /\ ioMode[i] # "OUTPUT_LOW"
  /\ ioLevel' = [ioLevel EXCEPT ![i] = 1 - @]
  /\ inputValue' = IoChangeValue(inputMask, ioMode, ioLevel')
  /\ nINT' = IoChangeFlag(inputValue', lastReadValue)
  /\ lastReadValue' = IoChangeLastRead(inputValue', lastReadValue)
  /\ ret' = NoRet
  /\ last' = "chip_input_io_change"
  /\ UNCHANGED <<address, addrLevel, ioMode, ioWatch, inputMask,
                 i2c_portcount, bus, count, wr>>

\* the external level of I/O line i changes while no callback sees it:
\* the line is driven low by the chip, or has no watch
PinLevelChange(i) ==
  /\ ioWatch[i] = 0 \/ ioMode[i] = "OUTPUT_LOW"
  /\ ioLevel' = [ioLevel EXCEPT ![i] = 1 - @]
  /\ ret' = NoRet
  /\ last' = "pin_level"
  /\ UNCHANGED <<address, addrLevel, nINT, ioMode, ioWatch, inputMask,
                 inputValue, lastReadValue, i2c_portcount, bus, count, wr>>

Next ==
  \/ \E a \in BusAddrs, rd \in BOOLEAN : on_i2c_connect(a, rd)
  \/ on_i2c_read
  \/ \E d \in Bytes : on_i2c_write(d)
  \/ on_i2c_disconnect
  \/ \E i \in AddrLines : chip_addr_change(i)
  \/ \E i \in ToggleLines : chip_input_io_change(i)
  \/ \E i \in ToggleLines : PinLevelChange(i)

Spec == Init /\ [][Next]_vars

TypeOK ==
  /\ address \in 0..255
  /\ inputMask \in 0..65535
  /\ inputValue \in 0..65535
  /\ lastReadValue \in 0..65535
  /\ i2c_portcount \in 0..255
  /\ nINT \in {"INPUT", "OUTPUT_LOW"}

\* ------------------------------------------------------------------------
\* Vocabulary of the properties
\* ------------------------------------------------------------------------
Asserted == nINT = "OUTPUT_LOW"

\* line i is an input with pull-up and has an edge watch
Monitored(cfg, i) == cfg.mode[i] = "INPUT_PULLUP" /\ cfg.watch[i] > 0

\* line i is driven low and has no edge watch
DrivenLow(cfg, i) == cfg.mode[i] = "OUTPUT_LOW" /\ cfg.watch[i] = 0

\* line i is configured as bit b of a written byte asks
LineAsBit(cfg, i, b) == IF b = 1 THEN Monitored(cfg, i) ELSE DrivenLow(cfg, i)

\* the two on_i2c_write calls of a write transaction [b0, b1], applied to the
\* configuration cfg with the port count pc that the connect left
WriteTxn(cfg, pc, b0, b1) ==
  WritePost(b1, incrementPortCount(pc), WritePost(b0, pc, cfg))

\* a write transaction has just been opened
WriteOpened == last = "on_i2c_connect" /\ bus = "write"

\* ------------------------------------------------------------------------
\* Properties
\* ------------------------------------------------------------------------
\* C1: in every reachable state the interrupt line is driven low if and
\* only if inputValue differs from lastReadValue.
C1_InterruptIffDiffers == Asserted <=> (inputValue # lastReadValue)

\* C2: after every on_i2c_write call, the first byte of a transaction
\* included, the mask bit of each of the 16 lines is set exactly when the
\* line is a watched pull-up input and clear exactly when the line is driven
\* low without a watch.
C2_MaskMatchesPins ==
  last = "on_i2c_write" =>
    \A i \in Lines : /\ (Bit(inputMask, i) = 1) <=> Monitored(CfgSt, i)
                     /\ (Bit(inputMask, i) = 0) <=> DrivenLow(CfgSt, i)

\* C3: the k-th on_i2c_read of a read transaction (k = 0, 1, 2, ...) returns
\* byte k mod 2 of inputValue as it is at the time of the call.
C3_ReadReturnsPortByte ==
  last = "on_i2c_read" => ret = ByteOf(inputValue, (count - 1) % 2)

C3_Witness ==
  /\ last = "on_i2c_read"
  /\ count = 3
  /\ ByteOf(inputValue, 0) # ByteOf(inputValue, 1)
  /\ ret = ByteOf(inputValue, 0)

\* C4: a write transaction of exactly two bytes b0, b1 ends with
\* inputMask = b0 | (b1 << 8), every line with a set bit a watched pull-up
\* input and every line with a clear bit driven low without a watch.
C4_TwoByteWrite ==
  (last = "on_i2c_write" /\ count = 2) =>
    /\ inputMask = wr[1] + 256 * wr[2]
    /\ \A i \in Lines : LineAsBit(CfgSt, i, Bit(inputMask, i))

C4_Witness ==
  /\ last = "on_i2c_write"
  /\ count = 2
  /\ wr = <<255, 0>>
  /\ inputMask = 255
  /\ \A i \in 0..7 : Monitored(CfgSt, i)
  /\ \A i \in 8..15 : DrivenLow(CfgSt, i)

\* C5: the third byte b2 of a write transaction is acknowledged and handled
\* as the first byte of a new pair: inputMask equals b2 (bits 8-15 zero),
\* lines 0-7 follow b2, lines 8-15 keep what the second byte b1 gave them.
C5_ThirdByteWraps ==
  (last = "on_i2c_write" /\ count = 3) =>
    /\ ret = TRUE
    /\ i2c_portcount = 1
    /\ inputMask = wr[2]
    /\ \A i \in 0..7 : LineAsBit(CfgSt, i, Bit(wr[2], i))
    /\ \A i \in 8..15 : LineAsBit(CfgSt, i, Bit(wr[1], i - 8))

C5_Witness ==
  /\ last = "on_i2c_write"
  /\ count = 3
  /\ wr = <<255, 0>>
  /\ inputMask = 0
  /\ \A i \in 0..7 : DrivenLow(CfgSt, i)
  /\ \A i \in 8..15 : Monitored(CfgSt, i)

\* C6: whenever a write transaction is opened, in any reachable state, writing
\* the two-byte configuration b0, b1 in it and again in a second write
\* transaction leaves exactly the mask, the 16 pin modes and the watch
\* registrations that the first transaction left.
C6_RepeatedWriteIdempotent ==
  WriteOpened =>
    \A b0 \in Bytes, b1 \in Bytes :
      LET first == WriteTxn(CfgSt, i2c_portcount, b0, b1)
          reopened == ConnectPost(address, FALSE, ChipSt).pc
      IN WriteTxn(first, reopened, b0, b1) = first

\* a write transaction is opened on the configuration that [0x00, 0xFF]
\* left, and writing [0x00, 0xFF] again would leave it as it is
C6_Witness ==
  /\ WriteOpened
  /\ inputMask = 65280
  /\ \A i \in 0..7 : DrivenLow(CfgSt, i)
  /\ \A i \in 8..15 : Monitored(CfgSt, i)
  /\ WriteTxn(CfgSt, i2c_portcount, 0, 255) = CfgSt

\* C7: on_i2c_connect acknowledges every address in both directions and
\* leaves the same chip state whether or not the address is the chip's own;
\* on_i2c_write acknowledges every byte.
C7_AlwaysAck ==
  /\ last \in {"on_i2c_connect", "on_i2c_write"} => ret = TRUE
  /\ \A a \in BusAddrs, rd \in BOOLEAN :
       /\ ConnectPost(a, rd, ChipSt) = ConnectPost(address, rd, ChipSt)
       /\ ConnectPost(a, rd, ChipSt).ack = TRUE

\* a connect has just been acknowledged although the chip's address is none
\* of the addresses the master uses
C7_Witness ==
  /\ last = "on_i2c_connect"
  /\ address \notin BusAddrs
  /\ ret = TRUE
  /\ i2c_portcount = 0

\* C8: a read-type connect sets lastReadValue to inputValue and releases the
\* interrupt line in that step, a write-type connect changes neither, and
\* on_i2c_read never changes lastReadValue or the interrupt line.
C8_ConnectSnapshots ==
  [][ /\ (last' = "on_i2c_connect" /\ bus' = "read") =>
           (lastReadValue' = inputValue /\ nINT' = "INPUT")
      /\ (last' = "on_i2c_connect" /\ bus' = "write") =>
           (lastReadValue' = lastReadValue /\ nINT' = nINT)
      /\ (last' = "on_i2c_read") =>
           (lastReadValue' = lastReadValue /\ nINT' = nINT) ]_vars

C8_Witness ==
  /\ last = "on_i2c_read"
  /\ lastReadValue = inputValue
  /\ inputValue \notin {0, 65535}
  /\ ~Asserted

\* C9: lastReadValue is changed by a read-type on_i2c_connect only.
C9_LastReadFrame ==
  [][ lastReadValue' # lastReadValue =>
        (last' = "on_i2c_connect" /\ bus' = "read") ]_vars

C9_Witness ==
  /\ last = "on_i2c_connect"
  /\ bus = "read"
  /\ lastReadValue \notin UninitVals
  /\ lastReadValue = inputValue

\* C10: every byte returned by on_i2c_read equals byte k mod 2 of
\* lastReadValue, whatever monitored-line edges come between the connect
\* and the byte reads.
C10_ReadReturnsSnapshot ==
  last = "on_i2c_read" => ret = ByteOf(lastReadValue, (count - 1) % 2)

\* the address the three select lines spell: base + A0 + 2*A1 + 4*A2
AddrOfLevels(levels) ==
  I2C_BASE_ADDRESS + levels[0] + 2 * levels[1] + 4 * levels[2]

\* C11: the stored address equals 0x20 OR (A0 + 2*A1 + 4*A2) for the current
\* levels of the address-select lines, after initialization and after every
\* address-line edge, and so lies in 0x20..0x27.
C11_AddressFromLines ==
  /\ address = AddrOfLevels(addrLevel)
  /\ address \in 32..39

C11_Witness ==
  /\ last = "chip_addr_change"
  /\ addrLevel = [i \in AddrLines |-> IF i = 1 THEN 0 ELSE 1]
  /\ address = 37

\* C12: an address-select line edge, also between the bytes of a
\* transaction, changes only the stored address: port count, mask, input
\* value, last read value, the 16 line modes and watches and the interrupt
\* line stay, and the next on_i2c_connect compares against the new address.
C12_AddrEdgeFrame ==
  [][ last' = "chip_addr_change" =>
        /\ UNCHANGED <<i2c_portcount, inputMask, inputValue, lastReadValue,
                       ioMode, ioWatch, nINT, bus, count>>
        /\ \A a \in 0..127 :
             ConnectMismatch(a, ChipSt') <=> (a # AddrOfLevels(addrLevel')) ]_vars

\* an address edge between the first and the second byte of a write
C12_Witness ==
  /\ last = "chip_addr_change"
  /\ bus = "write"
  /\ count = 1
  /\ i2c_portcount = 1
  /\ address # I2C_BASE_ADDRESS

\* C13: only lines whose inputMask bit is set have an edge watch, and a
\* level change on a line whose inputMask bit is clear changes neither
\* inputValue nor the interrupt line.
C13_UnmaskedLinesSilent ==
  [][ /\ \A i \in Lines : ioWatch'[i] > 0 => Bit(inputMask', i) = 1
      /\ \A i \in ToggleLines :
           (ioLevel'[i] # ioLevel[i] /\ Bit(inputMask, i) = 0) =>
             (inputValue' = inputValue /\ nINT' = nINT) ]_vars

\* C14: every I/O line is either driven low without a watch or a pull-up
\* input with a watch, never anything else.
C14_TwoLineConfigurations ==
  \A i \in Lines :
    /\ ioMode[i] \in {"OUTPUT_LOW", "INPUT_PULLUP"}
    /\ DrivenLow(CfgSt, i) \/ Monitored(CfgSt, i)
    /\ ~(DrivenLow(CfgSt, i) /\ Monitored(CfgSt, i))

\* lines of both kinds exist after a write reconfigured port 0 as outputs
C14_Witness ==
  /\ last = "on_i2c_write"
  /\ \A i \in 0..7 : DrivenLow(CfgSt, i)
  /\ \A i \in 8..15 : Monitored(CfgSt, i)

\* C15: right after chip_input_io_change, bit i of inputValue equals the
\* level of line i for every line i whose inputMask bit is set.
C15_MaskedBitsAreLevels ==
  last = "chip_input_io_change" =>
    \A i \in Lines :
      Bit(inputMask, i) = 1 => Bit(inputValue, i) = ExtLevel(ioLevel, i)

C15_Witness ==
  /\ last = "chip_input_io_change"
  /\ Bit(inputMask, 9) = 1
  /\ ioLevel[9] = 0
  /\ inputValue = 65023

C17_PortCountToggles ==
  [][ /\ i2c_portcount' \in {0, 1}
      /\ last' \in {"on_i2c_read", "on_i2c_write"} =>
           i2c_portcount' = 1 - i2c_portcount
      /\ last' = "on_i2c_connect" => i2c_portcount' = 0
      /\ (last' = "on_i2c_read" /\ count' = 1) =>
           ret' = ByteOf(inputValue, 0)
      /\ (last' = "on_i2c_write" /\ count' = 1) =>
           inputMask' = wr'[1] ]_vars

\* a connect that follows a transaction of an odd number of bytes
C17_Witness ==
  /\ last = "on_i2c_read"
  /\ count = 3
  /\ i2c_portcount = 1

\* C18: an asserted interrupt is released only by a read-type connect or by
\* a monitored-line edge whose recomputed inputValue equals lastReadValue;
\* such an edge releases it without any read.
C18_InterruptRelease ==
  [][ /\ (Asserted /\ ~Asserted') =>
           \/ (last' = "on_i2c_connect" /\ bus' = "read")
           \/ (last' = "chip_input_io_change" /\ inputValue' = lastReadValue')
      /\ (last' = "chip_input_io_change" /\ inputValue' = lastReadValue') =>
           ~Asserted' ]_vars

\* an edge has brought the input back to the value last read, outside any
\* read transaction, and the interrupt line is released
C18_Witness ==
  /\ last = "chip_input_io_change"
  /\ bus # "read"
  /\ inputValue = lastReadValue
  /\ Bit(inputMask, 9) = 1
  /\ ~Asserted

\* C19: inputValue has no bit set for a line whose inputMask bit is clear.
C19_NoValueOutsideMask ==
  \A i \in Lines : Bit(inputMask, i) = 0 => Bit(inputValue, i) = 0

\* C20: every I/O line has at most one edge-watch registration.
C20_AtMostOneWatch == \A i \in Lines : ioWatch[i] <= 1

\* lines that already had a watch were written a 1 bit again
C20_Witness ==
  /\ last = "on_i2c_write"
  /\ count = 2
  /\ wr = <<255, 255>>
  /\ \A i \in Lines : ioWatch[i] = 1
====
